---- MODULE Spec2Model ----
(***************************************************************************)
(* Model of slack_bot/notifications.py: the chunking of a log message, the *)
(* Slack and Teams payload builders, the single POST attempt, the retrying *)
(* wrapper around it and the loop of send_log_message.                     *)
(*                                                                         *)
(* A Python str is a sequence of tokens (TLA+ strings); concatenation is   *)
(* \o.  A Python value that may be None, a str or a list is a record with  *)
(* a "type" field.  The characters of a text are distinct tokens, so that  *)
(* a chunk tells which positions of the text it holds.                     *)
(*                                                                         *)
(* retry is the decorator of the retrying package: it calls the method     *)
(* again after any exception, sleeps wait_fixed ms between two attempts    *)
(* and, once stop_max_attempt_number attempts were made, re-raises the     *)
(* exception of the last one.                                              *)
(*                                                                         *)
(* The clock from which set_body takes its timestamp counts the time a     *)
(* call has spent in the sleeps of retry.  trace, log and result record    *)
(* what a call did; log keeps the severity and the logging function of     *)
(* each record, not its message.                                           *)
(***************************************************************************)
EXTENDS Integers, Sequences, FiniteSets, TLC

\* ---------------------------------------------------------------- bounds
\* longest text of a call, in chunks of LIMIT characters
MaxChunks == 3
\* longest string and largest max_length given to split_text_into_chunks alone
MaxLen == 5
MaxN == 6

\* the longest list of mentions given to set_body on its own
MaxMentions == 3

\* the largest status code given to send_message on its own
MaxStatus == 599

\* ------------------------------------------------------ module constants
LIMIT == 2000
POST_TIMEOUT == 10
MAX_FAILURE_ATTEMPTS == 3
WAIT_AFTER_FAILURE == 5000

LEVELS ==
    [info    |-> [level |-> "INFO", text_icon |-> ":large_blue_circle:",
                  icon_emoji |-> "information_source:"],
     warning |-> [level |-> "WARNING", text_icon |-> ":large_yellow_circle:",
                  icon_emoji |-> ":warning:"],
     error   |-> [level |-> "ERROR", text_icon |-> ":red_circle:",
                  icon_emoji |-> ":red_circle:"]]

LEVELS_TEAMS ==
    [info    |-> [level |-> "INFO", text_icon |-> "&#x2139;&#xFE0F;"],
     warning |-> [level |-> "WARNING", text_icon |-> "&#128310;"],
     error   |-> [level |-> "ERROR", text_icon |-> "&#128308;"]]

\* ------------------------------------------------------- Python values
None == [type |-> "NoneType", val |-> <<>>]
Str(tokens) == [type |-> "str", val |-> tokens]
List(items) == [type |-> "list", val |-> items]

\* a test "text is not None" in the place of the truth value
Truthy_not_None(x) == x.type # "NoneType"

\* Python truth value of a str or None ("not text" is ~Truthy(text))
Truthy(x) == x.type # "NoneType" /\ Len(x.val) > 0

Min(a, b) == IF a <= b THEN a ELSE b

\* a slice that takes one character too many
Slice_one_more(text, lo, hi) == SubSeq(text, lo + 1, Min(hi + 1, Len(text)))

\* text[lo:hi] for 0 <= lo <= hi: the slice stops at the end of the text
Slice(text, lo, hi) == SubSeq(text, lo + 1, Min(hi, Len(text)))

\* __name__ and os.path.basename(__file__) of the module
ModuleName == <<"slack_bot.notifications">>
FileName == <<"notifications.py">>

\* ------------------------------------------------------------- state
VARIABLES
    variant,        \* "Slack" or "Teams": the class of the notifier
    _url,           \* self._url
    username,       \* self.username
    name,           \* self.name
    pc,             \* position in send_log_message: idle (no call), loop,
                    \* send, wait, done (the call is over)
    level,          \* arguments of the call in progress (or of the last call)
    text,
    echo,
    split_text,     \* the chunks of the call
    iter_index,     \* chunks the for loop of line 120 has taken
    chunk_id,       \* chunk_id of send_log_message
    body,           \* payload of the current chunk
    attempt_number, \* attempt number of the retrying wrapper
    exc,            \* exception that left the retrying wrapper of send_message
    now,            \* wall clock: milliseconds since the call began
    trace,          \* what the call did: set_body, post and sleep events
    log,            \* the records the call gave to _logger, as a set: the
                    \* severity and the logging function of each
    result,         \* "none" in a call, then "returned" or "raised"
    arg_text,       \* split_text_into_chunks called alone: its arguments
    arg_max_length,
    chunks,         \* ... and its result
    called,         \* ... once it has been called
    arg_outcome,    \* send_message called alone: what its POST does
    prior           \* calls one after another: how the call before ended

nvars == <<variant, _url, username, name, pc, level, text, echo, split_text,
           iter_index, chunk_id, body, attempt_number, exc, now, trace, log, result>>
svars == <<arg_text, arg_max_length, chunks, called, arg_outcome, prior>>
vars == <<nvars, svars>>

\* ------------------------------------------------------ pure functions
\* a loop that stops before a last chunk shorter than max_length
RECURSIVE split_loop_drops_tail(_, _, _, _)
split_loop_drops_tail(s, max_length, i, acc) ==
    IF i + max_length > Len(s) THEN acc
    ELSE split_loop_drops_tail(s, max_length, i + max_length,
                               Append(acc, Slice(s, i, i + max_length)))

RECURSIVE split_loop(_, _, _, _)
split_loop(s, max_length, i, acc) ==
    IF i >= Len(s) THEN acc
    ELSE split_loop(s, max_length, i + max_length,
                    Append(acc, Slice(s, i, i + max_length)))

\* split_text_into_chunks: for i in range(0, len(text), max_length)
split_text_into_chunks(s, max_length) == split_loop(s, max_length, 0, <<>>)

\* ' '.join(items) for a list of strs
RECURSIVE join(_, _)
join(sep, items) ==
    IF Len(items) = 0 THEN <<>>
    ELSE IF Len(items) = 1 THEN Head(items)
    ELSE Head(items) \o sep \o join(sep, Tail(items))

\* a comprehension that walks the list from its end
at_each_reversed(items) ==
    [k \in 1..Len(items) |-> <<"@">> \o items[Len(items) - k + 1]]

\* [f'@{x}' for x in echo]
at_each(items) == [k \in 1..Len(items) |-> <<"@">> \o items[k]]

\* SlackNotifier.set_body, lines 208-214: the rendering of echo
render_echo(e) ==
    IF e.type # "NoneType"
    THEN IF e.type = "list" THEN join(<<" ">>, at_each(e.val))
         ELSE <<"@">> \o e.val
    ELSE <<>>

\* a Slack builder that decorates every chunk
SlackNotifier_set_body_always_decorated(lvl, txt, cid, e, date) ==
    [username |-> username,
     icon_emoji |-> LEVELS[lvl].icon_emoji,
     blocks |-> << [type |-> "section",
                    text |-> [type |-> "mrkdwn",
                              text |-> <<LEVELS[lvl].text_icon, " ">>
                                       \o render_echo(e) \o <<" ">> \o date
                                       \o <<" ", "[">> \o name
                                       \o <<"]", " ", LEVELS[lvl].level, ":", "\n">>
                                       \o txt]] >>]

\* SlackNotifier.set_body; date is str(datetime.datetime.now())
SlackNotifier_set_body(lvl, txt, cid, e, date) ==
    LET level_text == LEVELS[lvl].level
        text_icon == LEVELS[lvl].text_icon
        icon_emoji == LEVELS[lvl].icon_emoji
        decorated == <<text_icon, " ">> \o render_echo(e) \o <<" ">> \o date
                     \o <<" ", "[">> \o name \o <<"]", " ", level_text, ":", "\n">>
                     \o txt
        message_text == IF cid > 1 THEN txt ELSE decorated
    IN  [username |-> username,
         icon_emoji |-> icon_emoji,
         blocks |-> << [type |-> "section",
                        text |-> [type |-> "mrkdwn", text |-> message_text]] >>]

\* a Teams builder that leaves continuation chunks bare, as the Slack one does
TeamsNotifier_set_body_suppressed(lvl, txt, cid, e, date) ==
    IF cid > 1 THEN [text |-> txt]
    ELSE [text |-> <<LEVELS_TEAMS[lvl].text_icon, " ">> \o date \o <<" ", "[">>
                   \o name
                   \o <<"]", " ", " ", LEVELS_TEAMS[lvl].level, ":", " ", " ">>
                   \o txt]

\* a Teams builder that shows the mentions, as the Slack one does
TeamsNotifier_set_body_with_mentions(lvl, txt, cid, e, date) ==
    [text |-> <<LEVELS_TEAMS[lvl].text_icon, " ">> \o render_echo(e) \o <<" ">>
              \o date \o <<" ", "[">> \o name
              \o <<"]", " ", " ", LEVELS_TEAMS[lvl].level, ":", " ", " ">>
              \o txt]

\* TeamsNotifier.set_body: chunk_id and echo are not used
TeamsNotifier_set_body(lvl, txt, cid, e, date) ==
    LET level_text == LEVELS_TEAMS[lvl].level
        text_icon == LEVELS_TEAMS[lvl].text_icon
    IN  [text |-> <<text_icon, " ">> \o date \o <<" ", "[">> \o name
                  \o <<"]", " ", " ", level_text, ":", " ", " ">> \o txt]

\* a builder that cuts the message text it made down to LIMIT characters
set_body_truncating(lvl, txt, cid, e, date) ==
    IF variant = "Slack"
    THEN LET b == SlackNotifier_set_body(lvl, txt, cid, e, date)
             shown == b.blocks[1].text.text
         IN  [b EXCEPT !.blocks[1].text.text = SubSeq(shown, 1, Min(Len(shown), LIMIT))]
    ELSE LET b == TeamsNotifier_set_body(lvl, txt, cid, e, date)
         IN  [b EXCEPT !.text = SubSeq(b.text, 1, Min(Len(b.text), LIMIT))]

\* self.set_body: the method of the notifier's class
set_body(lvl, txt, cid, e, date) ==
    IF variant = "Slack" THEN SlackNotifier_set_body(lvl, txt, cid, e, date)
    ELSE TeamsNotifier_set_body(lvl, txt, cid, e, date)

\* the text a payload shows: blocks[0].text.text (Slack) or text (Teams)
body_text(b) == IF variant = "Slack" THEN b.blocks[1].text.text ELSE b.text

\* ----------------------------------------------------- one POST attempt
\* What requests.post (with json.dumps of the body) does in one attempt:
\* a response with a status code, a requests.exceptions.RequestException
\* or any other Exception.
StatusCodes == {200, 201, 500}
Outcomes ==
    {[kind |-> "response", status_code |-> c, exc_name |-> "", exc_str |-> ""] :
        c \in StatusCodes}
    \cup {[kind |-> "RequestException", status_code |-> 0,
           exc_name |-> "ConnectionError", exc_str |-> "connection refused"],
          [kind |-> "Exception", status_code |-> 0,
           exc_name |-> "TypeError", exc_str |-> "not JSON serializable"]}

\* no POST is made
NoOutcome == [kind |-> "none", status_code |-> 0, exc_name |-> "", exc_str |-> ""]

NoExc == [type |-> "", msg |-> <<>>]
NotifierError(msg) == [type |-> "NotifierError", msg |-> msg]

\* the records of a sequence of log records
Records(records) == {records[i] : i \in 1..Len(records)}

ErrorRecord(func) == [levelname |-> "ERROR", funcName |-> func]
WarningRecord(func) == [levelname |-> "WARNING", funcName |-> func]

\* a try block that takes every 2xx status for a success
try_post_accepts_2xx(url, b, o) ==
    IF o.kind = "response"
    THEN IF o.status_code \div 100 # 2
         THEN [exc |-> [type |-> "NotifierError", base |-> "Exception",
                        msg |-> <<"Failed to send message, status code: ",
                                  ToString(o.status_code)>>],
               log |-> <<ErrorRecord("send_message")>>]
         ELSE [exc |-> [type |-> "", base |-> "", msg |-> <<>>], log |-> <<>>]
    ELSE [exc |-> [type |-> o.exc_name, base |-> o.kind, msg |-> <<o.exc_str>>],
          log |-> <<>>]

\* lines 143-152, the try block of send_message for one outcome of the POST:
\* the exception it raises (NoExc when it ends normally), with the class the
\* except clauses test, and its log records
try_post(url, b, o) ==
    IF o.kind = "response"
    THEN IF o.status_code # 200
         THEN [exc |-> [type |-> "NotifierError", base |-> "Exception",
                        msg |-> <<"Failed to send message, status code: ",
                                  ToString(o.status_code)>>],
               log |-> <<ErrorRecord("send_message")>>]
         ELSE [exc |-> [type |-> "", base |-> "", msg |-> <<>>], log |-> <<>>]
    ELSE [exc |-> [type |-> o.exc_name, base |-> o.kind, msg |-> <<o.exc_str>>],
          log |-> <<>>]

\* send_message without the clause "except Exception" of line 160: a fault that
\* is no RequestException leaves the attempt as it is
send_message_no_broad_except(url, b, o) ==
    LET t == try_post(url, b, o)
    IN  IF t.exc.type = "" THEN [exc |-> NoExc, log |-> t.log]
        ELSE IF t.exc.base = "RequestException"
        THEN [exc |-> NotifierError(<<t.exc.type, " -> ">> \o t.exc.msg),
              log |-> Append(t.log, ErrorRecord("send_message"))]
        ELSE [exc |-> [type |-> t.exc.type, msg |-> t.exc.msg], log |-> t.log]

\* send_message, lines 136-164, for one outcome of the POST: the exception
\* it ends with (NoExc when it returns) and its log records.  The
\* NotifierError of line 152 is raised inside the try block, so the clause
\* "except Exception" of line 160 wraps it as it wraps any other fault.
send_message(url, b, o) ==
    LET t == try_post(url, b, o)
    IN  IF t.exc.type = "" THEN [exc |-> NoExc, log |-> t.log]
        ELSE IF t.exc.base = "RequestException"
        THEN [exc |-> NotifierError(<<t.exc.type, " -> ">> \o t.exc.msg),
              log |-> Append(t.log, ErrorRecord("send_message"))]
        ELSE [exc |-> NotifierError(<<t.exc.type, " -> ">> \o t.exc.msg),
              log |-> Append(t.log, ErrorRecord("send_message"))]

\* a wrapper that allows two attempts more
should_stop_after_five(attempt) == attempt >= MAX_FAILURE_ATTEMPTS + 2

\* a wrapper that stops one attempt late
should_stop_late(attempt) == attempt > MAX_FAILURE_ATTEMPTS

\* @retry(stop_max_attempt_number=MAX_FAILURE_ATTEMPTS): after a failed
\* attempt the wrapper stops, and re-raises the attempt's exception, once
\* this many attempts have been made
should_stop(attempt) == attempt >= MAX_FAILURE_ATTEMPTS

\* a wrapper whose sleep grows with the attempt number
wait_growing(attempt) == attempt * WAIT_AFTER_FAILURE

\* @retry(wait_fixed=WAIT_AFTER_FAILURE): the sleep before the next attempt
wait_fixed(attempt) == WAIT_AFTER_FAILURE

\* "except NotifierError" of send_log_message, line 125
caught(e) == e.type = "NotifierError"

\* a try statement inside the for loop: the loop goes on after the handler
after_except_in_loop == "loop"

\* lines 116-127: the try statement encloses the for loop, so the handler of
\* line 125 runs after the loop has been left and the method ends there
after_except == "done"

\* a loop that forgets to count the chunks
next_chunk_id_stuck(cid) == cid

\* line 123: chunk_id += 1
next_chunk_id(cid) == cid + 1

\* ------------------------------------------------------------- inputs
\* the character at position i of a text: distinct at every position
MkText(len) == [i \in 1..len |-> ToString(i)]
TextLens == {1, LIMIT, LIMIT + 1, (MaxChunks - 1) * LIMIT + 500}
TextArgs == {None, Str(<<>>)} \cup {Str(MkText(len)) : len \in TextLens}
EchoArgs == {None, Str(<<"bob">>), List(<< <<"bob">>, <<"amy">> >>)}
Levels == {"info", "warning", "error"}
\* str(datetime.datetime.now()) when the clock shows t
Date(t) == <<"T0+", ToString(t), "ms">>
UrlArg == <<"https://hooks.example/services/T000">>
\* the arguments name and username of the constructor
NameArgs == {None, Str(<<"app">>)}
UsernameArgs == {None, Str(<<"bot">>)}

NoBody == [unset |-> TRUE]

\* --------------------------------------------------------- construction
\* SlackNotifier.__init__ and TeamsNotifier.__init__ (the same code)
init_username(arg) == IF arg.type = "NoneType" THEN FileName ELSE arg.val
init_name(arg) == IF arg.type = "NoneType" THEN ModuleName ELSE arg.val

SplitIdle ==
    /\ arg_text = <<>>
    /\ arg_max_length = 1
    /\ chunks = <<>>
    /\ called = FALSE
    /\ arg_outcome = NoOutcome
    /\ prior = "none"

Init ==
    /\ variant \in {"Slack", "Teams"}
    /\ _url = UrlArg
    /\ \E arg \in UsernameArgs : username = init_username(arg)
    /\ \E arg \in NameArgs : name = init_name(arg)
    /\ pc = "idle"
    /\ level = "info"
    /\ text = None
    /\ echo = None
    /\ split_text = <<>>
    /\ iter_index = 0
    /\ chunk_id = 0
    /\ body = NoBody
    /\ attempt_number = 0
    /\ exc = NoExc
    /\ now = 0
    /\ trace = <<>>
    /\ log = {}
    /\ result = "none"
    /\ SplitIdle

\* ------------------------------------------------------------- actions
\* a send_log_message that numbers its chunks on from the chunk_id it finds
send_log_message_resuming(lvl, t, e) ==
    /\ pc = "idle"
    /\ level' = lvl
    /\ text' = t
    /\ echo' = e
    /\ iter_index' = 0
    /\ body' = NoBody
    /\ attempt_number' = 0
    /\ exc' = NoExc
    /\ now' = 0
    /\ trace' = <<>>
    /\ IF ~Truthy(t)
       THEN /\ log' = {WarningRecord("send_log_message")}
            /\ split_text' = <<>>
            /\ chunk_id' = 0
            /\ result' = "returned"
            /\ pc' = "done"
       ELSE /\ log' = {}
            /\ split_text' = split_text_into_chunks(t.val, LIMIT)
            /\ chunk_id' = chunk_id + 1
            /\ result' = "none"
            /\ pc' = "loop"
    /\ UNCHANGED <<variant, _url, username, name, svars>>

\* send_log_message up to the loop: lines 112-119
send_log_message(lvl, t, e) ==
    /\ pc = "idle"
    /\ level' = lvl
    /\ text' = t
    /\ echo' = e
    /\ iter_index' = 0
    /\ body' = NoBody
    /\ attempt_number' = 0
    /\ exc' = NoExc
    /\ now' = 0
    /\ trace' = <<>>
    /\ IF ~Truthy(t)
       THEN /\ log' = {WarningRecord("send_log_message")}
            /\ split_text' = <<>>
            /\ chunk_id' = 0
            /\ result' = "returned"
            /\ pc' = "done"
       ELSE /\ log' = {}
            /\ split_text' = split_text_into_chunks(t.val, LIMIT)
            /\ chunk_id' = 1
            /\ result' = "none"
            /\ pc' = "loop"
    /\ UNCHANGED <<variant, _url, username, name, svars>>

info == \E t \in TextArgs, e \in EchoArgs : send_log_message("info", t, e)

warning == \E t \in TextArgs, e \in EchoArgs : send_log_message("warning", t, e)

error == \E t \in TextArgs, e \in EchoArgs : send_log_message("error", t, e)

\* a loop that lets the retry interval pass before the first attempt too
BuildBody_waits ==
    /\ pc = "loop"
    /\ iter_index < Len(split_text)
    /\ LET text_chunk == split_text[iter_index + 1]
           b == set_body(level, text_chunk, chunk_id, echo, Date(now))
       IN  /\ body' = b
           /\ trace' = Append(trace, [ev |-> "set_body", chunk_id |-> chunk_id,
                                      body |-> b])
    /\ iter_index' = iter_index + 1
    /\ attempt_number' = 0
    /\ pc' = "wait"
    /\ UNCHANGED <<variant, _url, username, name, level, text, echo, split_text,
                   chunk_id, exc, now, log, result, svars>>

\* lines 120-121: the for loop takes the next chunk and its payload is built
BuildBody ==
    /\ pc = "loop"
    /\ iter_index < Len(split_text)
    /\ LET text_chunk == split_text[iter_index + 1]
           b == set_body(level, text_chunk, chunk_id, echo, Date(now))
       IN  /\ body' = b
           /\ trace' = Append(trace, [ev |-> "set_body", chunk_id |-> chunk_id,
                                      body |-> b])
    /\ iter_index' = iter_index + 1
    /\ attempt_number' = 0
    /\ pc' = "send"
    /\ UNCHANGED <<variant, _url, username, name, level, text, echo, split_text,
                   chunk_id, exc, now, log, result, svars>>

\* an attempt that builds the payload anew, with the time of the attempt
Attempt_rebuilding ==
    /\ pc = "send"
    /\ \E o \in Outcomes :
         LET b == set_body(level, split_text[iter_index], chunk_id, echo,
                           Date(now))
             r == send_message(_url, b, o)
             n == attempt_number + 1
             failed == r.exc.type # ""
         IN  /\ attempt_number' = n
             /\ body' = b
             /\ trace' = Append(trace, [ev |-> "post", chunk_id |-> chunk_id,
                                        url |-> _url, body |-> b,
                                        timeout |-> POST_TIMEOUT,
                                        attempt |-> n, raised |-> r.exc.type])
             /\ IF ~failed
                THEN /\ chunk_id' = next_chunk_id(chunk_id)
                     /\ exc' = exc
                     /\ log' = log \cup Records(r.log)
                     /\ result' = result
                     /\ pc' = "loop"
                ELSE IF ~should_stop(n)
                THEN /\ chunk_id' = chunk_id
                     /\ exc' = exc
                     /\ log' = log \cup Records(r.log)
                     /\ result' = result
                     /\ pc' = "wait"
                ELSE /\ chunk_id' = chunk_id
                     /\ exc' = r.exc
                     /\ log' = log \cup Records(r.log)
                                  \cup {ErrorRecord("send_log_message")}
                     /\ result' = "returned"
                     /\ pc' = "done"
    /\ UNCHANGED <<variant, _url, username, name, level, text, echo, split_text,
                   iter_index, now, svars>>

\* line 122: one attempt of self.send_message(self.url, body) under @retry
Attempt ==
    /\ pc = "send"
    /\ \E o \in Outcomes :
         LET r == send_message(_url, body, o)
             n == attempt_number + 1
             failed == r.exc.type # ""
         IN  /\ attempt_number' = n
             /\ trace' = Append(trace, [ev |-> "post", chunk_id |-> chunk_id,
                                        url |-> _url, body |-> body,
                                        timeout |-> POST_TIMEOUT,
                                        attempt |-> n, raised |-> r.exc.type])
             /\ IF ~failed
                THEN \* line 123
                     /\ chunk_id' = next_chunk_id(chunk_id)
                     /\ exc' = exc
                     /\ log' = log \cup Records(r.log)
                     /\ result' = result
                     /\ pc' = "loop"
                ELSE IF ~should_stop(n)
                THEN /\ chunk_id' = chunk_id
                     /\ exc' = exc
                     /\ log' = log \cup Records(r.log)
                     /\ result' = result
                     /\ pc' = "wait"
                ELSE IF caught(r.exc)
                THEN \* lines 125-127
                     /\ chunk_id' = chunk_id
                     /\ exc' = r.exc
                     /\ log' = log \cup Records(r.log)
                                  \cup {ErrorRecord("send_log_message")}
                     /\ result' = IF after_except = "done" THEN "returned" ELSE result
                     /\ pc' = after_except
                ELSE /\ chunk_id' = chunk_id
                     /\ exc' = r.exc
                     /\ log' = log \cup Records(r.log)
                     /\ result' = "raised"
                     /\ pc' = "done"
    /\ UNCHANGED <<variant, _url, username, name, level, text, echo, split_text,
                   iter_index, body, now, svars>>

\* the sleep of @retry between two attempts
Sleep ==
    /\ pc = "wait"
    /\ trace' = Append(trace, [ev |-> "sleep", chunk_id |-> chunk_id,
                               ms |-> wait_fixed(attempt_number)])
    /\ now' = now + wait_fixed(attempt_number)
    /\ pc' = "send"
    /\ UNCHANGED <<variant, _url, username, name, level, text, echo, split_text,
                   iter_index, chunk_id, body, attempt_number, exc, log, result,
                   svars>>

\* the loop of line 120 is exhausted: send_log_message returns
Return ==
    /\ pc = "loop"
    /\ iter_index >= Len(split_text)
    /\ result' = "returned"
    /\ pc' = "done"
    /\ UNCHANGED <<variant, _url, username, name, level, text, echo, split_text,
                   iter_index, chunk_id, body, attempt_number, exc, now, trace, log, svars>>

\* the caller goes on: the frame of the finished call and what was recorded
\* of it are dropped, the notifier is ready for the next call
Continue ==
    /\ pc = "done"
    /\ pc' = "idle"
    /\ level' = "info"
    /\ text' = None
    /\ echo' = None
    /\ split_text' = <<>>
    /\ iter_index' = 0
    /\ chunk_id' = 0
    /\ body' = NoBody
    /\ attempt_number' = 0
    /\ exc' = NoExc
    /\ now' = 0
    /\ trace' = <<>>
    /\ log' = {}
    /\ result' = "none"
    /\ UNCHANGED <<variant, _url, username, name, svars>>

Next ==
    info \/ warning \/ error \/ BuildBody \/ Attempt \/ Sleep \/ Return \/ Continue

Spec == Init /\ [][Next]_vars

\* A call runs in one thread and each of its steps ends: the payload is
\* built, requests.post comes back with a response or an exception (it has a
\* timeout), time.sleep returns after its interval, the loop ends.
Step == BuildBody \/ Attempt \/ Sleep \/ Return

FairSpec == Spec /\ WF_vars(Step)

\* ------------------------------------- split_text_into_chunks on its own
Alphabet == {"a", "b"}
RECURSIVE Strings(_)
Strings(n) ==
    IF n = 0 THEN {<<>>}
    ELSE LET shorter == Strings(n - 1)
         IN  shorter \cup {Append(s, c) : s \in {x \in shorter : Len(x) = n - 1},
                                          c \in Alphabet}

SplitInit ==
    /\ variant = "Slack"
    /\ _url = UrlArg
    /\ username = FileName
    /\ name = ModuleName
    /\ pc = "idle"
    /\ level = "info"
    /\ text = None
    /\ echo = None
    /\ split_text = <<>>
    /\ iter_index = 0
    /\ chunk_id = 0
    /\ body = NoBody
    /\ attempt_number = 0
    /\ exc = NoExc
    /\ now = 0
    /\ trace = <<>>
    /\ log = {}
    /\ result = "none"
    /\ arg_text \in Strings(MaxLen)
    /\ arg_max_length \in 1..MaxN
    /\ chunks = <<>>
    /\ called = FALSE
    /\ arg_outcome = NoOutcome
    /\ prior = "none"

SplitCall ==
    /\ ~called
    /\ chunks' = split_text_into_chunks(arg_text, arg_max_length)
    /\ called' = TRUE
    /\ UNCHANGED <<arg_text, arg_max_length, arg_outcome, prior, nvars>>

SplitNext == SplitCall

SplitSpec == SplitInit /\ [][SplitNext]_vars

\* ----------------------------------------------------- set_body on its own
\* One call of set_body on a constructed notifier, for every level, both
\* kinds of chunk index and every echo argument up to MaxMentions mentions.
Identifiers == {<<"bob">>, <<"amy">>, <<"eve">>}
RECURSIVE Lists(_)
Lists(n) ==
    IF n = 0 THEN {<<>>}
    ELSE LET shorter == Lists(n - 1)
         IN  shorter \cup {Append(l, x) : l \in {y \in shorter : Len(y) = n - 1},
                                          x \in Identifiers}
MentionArgs ==
    {None} \cup {Str(x) : x \in Identifiers}
    \cup {List(l) : l \in Lists(MaxMentions)}

BodyInit ==
    /\ variant \in {"Slack", "Teams"}
    /\ _url = UrlArg
    /\ \E arg \in UsernameArgs : username = init_username(arg)
    /\ \E arg \in NameArgs : name = init_name(arg)
    /\ pc = "idle"
    /\ level \in Levels
    /\ text = Str(<<"b", "o", "o", "m">>)
    /\ echo \in MentionArgs
    /\ split_text = <<>>
    /\ iter_index = 0
    /\ chunk_id \in {1, 2}
    /\ body = NoBody
    /\ attempt_number = 0
    /\ exc = NoExc
    /\ now = 0
    /\ trace = <<>>
    /\ log = {}
    /\ result = "none"
    /\ SplitIdle

\* body = self.set_body(level, text, chunk_id, echo)
BodyCall ==
    /\ pc = "idle"
    /\ body' = set_body(level, text.val, chunk_id, echo, Date(now))
    /\ pc' = "done"
    /\ UNCHANGED <<variant, _url, username, name, level, text, echo, split_text,
                   iter_index, chunk_id, attempt_number, exc, now, trace, log,
                   result, svars>>

BodyNext == BodyCall

BodySpec == BodyInit /\ [][BodyNext]_vars

\* --------------------------------------------------- send_message on its own
\* One attempt of send_message, for every status code a response can have
\* and for faults of both kinds.
AllStatusCodes == 100..MaxStatus
RequestExceptionNames == {"ConnectionError", "Timeout", "HTTPError"}
OtherExceptionNames == {"TypeError", "ValueError"}
AttemptOutcomes ==
    {[kind |-> "response", status_code |-> c, exc_name |-> "", exc_str |-> ""] :
        c \in AllStatusCodes}
    \cup {[kind |-> "RequestException", status_code |-> 0,
           exc_name |-> n, exc_str |-> "connection refused"] :
            n \in RequestExceptionNames}
    \cup {[kind |-> "Exception", status_code |-> 0,
           exc_name |-> n, exc_str |-> "not JSON serializable"] :
            n \in OtherExceptionNames}

SendInit ==
    /\ variant \in {"Slack", "Teams"}
    /\ _url = UrlArg
    /\ username = FileName
    /\ name = ModuleName
    /\ pc = "send"
    /\ level = "info"
    /\ text = Str(<<"b", "o", "o", "m">>)
    /\ echo = None
    /\ split_text = <<text.val>>
    /\ iter_index = 1
    /\ chunk_id = 1
    /\ body = set_body(level, text.val, chunk_id, echo, Date(0))
    /\ attempt_number = 0
    /\ exc = NoExc
    /\ now = 0
    /\ trace = <<>>
    /\ log = {}
    /\ result = "none"
    /\ arg_text = <<>>
    /\ arg_max_length = 1
    /\ chunks = <<>>
    /\ called = FALSE
    /\ arg_outcome \in AttemptOutcomes
    /\ prior = "none"

\* self.send_message(self.url, body), one attempt: how it ends and its records
SendCall ==
    /\ pc = "send"
    /\ LET r == send_message(_url, body, arg_outcome)
       IN  /\ exc' = r.exc
           /\ log' = Records(r.log)
           /\ result' = IF r.exc.type = "" THEN "returned" ELSE "raised"
    /\ attempt_number' = attempt_number + 1
    /\ pc' = "done"
    /\ UNCHANGED <<variant, _url, username, name, level, text, echo, split_text,
                   iter_index, chunk_id, body, now, trace, svars>>

SendNext == SendCall

SendSpec == SendInit /\ [][SendNext]_vars

\* ------------------------------------------------ calls one after another
\* The same notifier is called again and again.  What the frame of the
\* finished call held as chunk_id, attempt number and loop position is left
\* where it was, and prior tells how that call ended: the next call has to
\* start afresh all the same.
ShortTextArgs == {None, Str(<<>>), Str(MkText(1)), Str(MkText(LIMIT + 1))}

AnyCall ==
    \E lvl \in Levels, t \in ShortTextArgs, e \in EchoArgs :
        send_log_message(lvl, t, e)

NextCall ==
    /\ pc = "done"
    /\ prior' = IF ~Truthy(text) THEN "empty"
                ELSE IF exc.type # "" THEN "abandoned"
                ELSE "delivered"
    /\ pc' = "idle"
    /\ level' = "info"
    /\ text' = None
    /\ echo' = None
    /\ split_text' = <<>>
    /\ body' = NoBody
    /\ exc' = NoExc
    /\ now' = 0
    /\ trace' = <<>>
    /\ log' = {}
    /\ result' = "none"
    /\ UNCHANGED <<variant, _url, username, name, iter_index, chunk_id,
                   attempt_number, arg_text, arg_max_length, chunks, called,
                   arg_outcome>>

CallsNext == AnyCall \/ BuildBody \/ Attempt \/ Sleep \/ Return \/ NextCall

CallsSpec == Init /\ [][CallsNext]_vars

\* =====================================================================
\* Properties
\* =====================================================================
InCall == pc # "idle"

\* the text of the call is a str with at least one character
TextGiven == text.type = "str" /\ text.val # <<>>

\* the events of the call that are about the chunk taken k-th by the loop
RECURSIVE NthBuild(_, _, _)
NthBuild(k, i, seen) ==
    \* index in trace of the k-th set_body event, 0 when there is none
    IF i > Len(trace) THEN 0
    ELSE IF trace[i].ev = "set_body"
    THEN IF seen + 1 = k THEN i ELSE NthBuild(k, i + 1, seen + 1)
    ELSE NthBuild(k, i + 1, seen)

BuildAt(k) == NthBuild(k, 1, 0)
NumBuilds == Cardinality({i \in 1..Len(trace) : trace[i].ev = "set_body"})

\* last index of the events of the k-th chunk (k in 1..NumBuilds)
ChunkEnd(k) == IF k < NumBuilds THEN BuildAt(k + 1) - 1 ELSE Len(trace)

\* the events of the k-th chunk: its set_body, then its posts and sleeps
ChunkEvents(k) == SubSeq(trace, BuildAt(k), ChunkEnd(k))
PostsOf(k) == SelectSeq(ChunkEvents(k), LAMBDA e : e.ev = "post")
SleepsOf(k) == SelectSeq(ChunkEvents(k), LAMBDA e : e.ev = "sleep")
FailedPostsOf(k) == SelectSeq(PostsOf(k), LAMBDA e : e.raised # "")
Posts == SelectSeq(trace, LAMBDA e : e.ev = "post")

\* the k-th chunk was delivered / was given up after all its attempts failed
Delivered(k) == \E i \in 1..Len(PostsOf(k)) : PostsOf(k)[i].raised = ""
Abandoned(k) ==
    /\ Len(FailedPostsOf(k)) >= MAX_FAILURE_ATTEMPTS
    /\ ~Delivered(k)

\* the number of chunks of the text of the call, and its k-th segment
NumChunks == (Len(text.val) + LIMIT - 1) \div LIMIT
Segment(k) ==
    SubSeq(text.val, (k - 1) * LIMIT + 1,
           IF k * LIMIT < Len(text.val) THEN k * LIMIT ELSE Len(text.val))

\* C1: a call of info, warning or error with a non-empty text never ends with
\* an exception, whatever the outcomes of its attempts: when it is over it
\* has returned.
C1_NoExceptionReachesCaller ==
    /\ result # "raised"
    /\ (pc = "done" => result = "returned")

\* a call that is over after three failed attempts of a chunk, the last of
\* them an unexpected fault (a TypeError)
C1_Witness ==
    /\ pc = "done"
    /\ TextGiven
    /\ result = "returned"
    /\ NumBuilds >= 1
    /\ Abandoned(NumBuilds)
    /\ exc.type = "NotifierError"
    /\ exc.msg[1] = "TypeError"

WellFormed(k) ==
    LET E == ChunkEvents(k)
    IN  /\ E[1].ev = "set_body"
        /\ \A i \in 2..Len(E) :
              IF i % 2 = 0
              THEN E[i].ev = "post" /\ E[i].attempt = i \div 2
              ELSE E[i].ev = "sleep"

\* C3: a failed attempt of a chunk is followed by one sleep of
\* WAIT_AFTER_FAILURE ms and another attempt, until an attempt succeeds or
\* MAX_FAILURE_ATTEMPTS attempts were made; a chunk delivered after k failures
\* (k in 0..2) took exactly k + 1 attempts and k sleeps, each between two
\* consecutive attempts.
C3_FixedDelayRetry ==
    \A k \in 1..NumBuilds :
        LET E == ChunkEvents(k)
            last == E[Len(E)]
        IN  /\ WellFormed(k)
            /\ \A i \in 1..Len(SleepsOf(k)) : SleepsOf(k)[i].ms = WAIT_AFTER_FAILURE
            /\ Len(PostsOf(k)) <= MAX_FAILURE_ATTEMPTS
            /\ \A i \in 1..(Len(PostsOf(k)) - 1) : PostsOf(k)[i].raised # ""
            /\ Delivered(k) =>
                  /\ Len(FailedPostsOf(k)) \in 0..(MAX_FAILURE_ATTEMPTS - 1)
                  /\ Len(PostsOf(k)) = Len(FailedPostsOf(k)) + 1
                  /\ Len(SleepsOf(k)) = Len(FailedPostsOf(k))
            /\ (k = NumBuilds /\ last.ev = "post" /\ last.raised # ""
                  /\ last.attempt < MAX_FAILURE_ATTEMPTS) =>
                  pc = "wait"
            /\ (k = NumBuilds /\ last.ev = "sleep") => pc = "send"

\* a chunk delivered by its third attempt, after two failures and two sleeps
C3_Witness ==
    /\ NumBuilds >= 1
    /\ Delivered(1)
    /\ Len(PostsOf(1)) = 3
    /\ Len(SleepsOf(1)) = 2
    /\ now >= 2 * WAIT_AFTER_FAILURE

\* C4: when all attempts of a chunk fail there are exactly 3 posts of it and
\* never a 4th; the failure of the third reaches send_log_message as a
\* NotifierError, which logs it at error severity and does not raise it again.
C4_ExhaustedAttempts ==
    \A k \in 1..NumBuilds :
        /\ Len(PostsOf(k)) <= 3
        /\ (Len(FailedPostsOf(k)) = Len(PostsOf(k)) /\ Len(PostsOf(k)) >= 3) =>
              /\ Len(PostsOf(k)) = 3
              /\ PostsOf(k)[3].raised = "NotifierError"
              /\ exc.type = "NotifierError"
              /\ ErrorRecord("send_log_message") \in log
              /\ result = "returned"
              /\ pc = "done"

\* the second chunk of a text failed three times
C4_Witness ==
    /\ NumBuilds = 2
    /\ Delivered(1)
    /\ Len(FailedPostsOf(2)) = 3
    /\ [levelname |-> "ERROR", funcName |-> "send_log_message"] \in log

\* C5: with a text that is empty or None, a call of info, warning or error
\* is over at once: no payload was built, no POST was made, nothing was
\* raised, for both notifiers and any echo.
C5_EmptyTextIsNoOp ==
    (InCall /\ ~TextGiven) =>
        /\ pc = "done"
        /\ result = "returned"
        /\ trace = <<>>
        /\ body = NoBody
        /\ split_text = <<>>

\* a Teams warning with an empty str and a list of mentions, over
C5_Witness ==
    /\ pc = "done"
    /\ text = Str(<<>>)
    /\ level = "warning"
    /\ variant = "Teams"
    /\ echo.type = "list"
    /\ log = {WarningRecord("send_log_message")}

\* the same with None
C5_WitnessNone ==
    /\ pc = "done"
    /\ text = None
    /\ variant = "Slack"
    /\ result = "returned"

\* the concatenation of a sequence of strs
RECURSIVE Flatten(_)
Flatten(ss) == IF Len(ss) = 0 THEN <<>> ELSE Head(ss) \o Flatten(Tail(ss))

\* C6: split_text_into_chunks(s, n), n > 0, returns consecutive substrings of
\* s whose concatenation is s, each of at most n characters, ceil(len(s)/n)
\* of them: none for the empty string, one when 0 < len(s) <= n.
C6_SplitIsPartition ==
    called =>
        LET n == arg_max_length
            len == Len(arg_text)
        IN  /\ Flatten(chunks) = arg_text
            /\ \A k \in 1..Len(chunks) : Len(chunks[k]) <= n
            /\ \A k \in 1..Len(chunks) :
                  chunks[k] = SubSeq(arg_text, (k - 1) * n + 1,
                                     IF k * n < len THEN k * n ELSE len)
            /\ Len(chunks) * n >= len
            /\ (Len(chunks) - 1) * n < len \/ Len(chunks) = 0
            /\ (len = 0 => chunks = <<>>)
            /\ (len > 0 /\ len <= n => chunks = <<arg_text>>)

\* a string of 5 characters split by 2: two full chunks and a shorter one
C6_Witness ==
    /\ called
    /\ Len(arg_text) = 5
    /\ arg_max_length = 2
    /\ Len(chunks) = 3
    /\ Len(chunks[3]) = 1

\* the empty string gives no chunk
C6_WitnessEmpty == called /\ arg_text = <<>> /\ chunks = <<>>

\* the time on the clock when the i-th event of the call happened
TimeAt(i) ==
    WAIT_AFTER_FAILURE * Cardinality({j \in 1..i : trace[j].ev = "sleep"})

\* the number of tokens a builder puts before the chunk text
DecorationLen(cid) ==
    Len(body_text(set_body(level, <<>>, cid, echo, Date(0))))

\* the part of a payload's text after the decoration
ChunkPart(b, cid) ==
    SubSeq(body_text(b), DecorationLen(cid) + 1, Len(body_text(b)))

AllPostsSucceeded == \A i \in 1..Len(Posts) : Posts[i].raised = ""

\* C7: when every attempt succeeds, a call with a text of L > 0 characters
\* makes exactly ceil(L / 2000) posts, one per chunk in ascending order, the
\* i-th carrying the i-th segment of 2000 characters of the text.
C7_OnePostPerChunk ==
    (pc = "done" /\ TextGiven /\ AllPostsSucceeded) =>
        /\ Len(Posts) * 2000 >= Len(text.val)
        /\ (Len(Posts) - 1) * 2000 < Len(text.val)
        /\ \A i \in 1..Len(Posts) :
              /\ Posts[i].chunk_id = i
              /\ Posts[i].attempt = 1
              /\ ChunkPart(Posts[i].body, i) =
                    SubSeq(text.val, (i - 1) * 2000 + 1,
                           IF i * 2000 < Len(text.val) THEN i * 2000
                           ELSE Len(text.val))

\* 4500 characters: three posts, carrying 2000, 2000 and 500 characters
C7_Witness ==
    /\ pc = "done"
    /\ Len(text.val) = 4500
    /\ AllPostsSucceeded
    /\ Len(Posts) = 3
    /\ Len(ChunkPart(Posts[1].body, 1)) = 2000
    /\ Len(ChunkPart(Posts[3].body, 3)) = 500
    /\ ChunkPart(Posts[3].body, 3)[1] = ToString(4001)

\* C8: the chunks of a call are handled one after the other from index 1:
\* the k-th payload built is built with chunk index k for the k-th segment of
\* the text, every post is a post of the payload built last, and the payload
\* of chunk k+1 is built only once the last post of chunk k has succeeded.
C8_AscendingChunks ==
    /\ (trace # <<>> => trace[1].ev = "set_body")
    /\ \A k \in 1..NumBuilds :
          LET E == ChunkEvents(k)
          IN  /\ E[1].chunk_id = k
              /\ ChunkPart(E[1].body, k) = Segment(k)
              /\ \A i \in 2..Len(E) : E[i].chunk_id = k
              /\ \A i \in 1..Len(PostsOf(k)) : PostsOf(k)[i].body = E[1].body
              /\ k > 1 =>
                    /\ trace[BuildAt(k) - 1].ev = "post"
                    /\ trace[BuildAt(k) - 1].chunk_id = k - 1
                    /\ trace[BuildAt(k) - 1].raised = ""
    /\ NumBuilds = iter_index
    /\ InCall /\ TextGiven => NumBuilds <= NumChunks

\* the third chunk is about to be posted, after retries of the first two
C8_Witness ==
    /\ pc = "send"
    /\ NumBuilds = 3
    /\ chunk_id = 3
    /\ Len(PostsOf(1)) = 2
    /\ Len(PostsOf(2)) = 3
    /\ Len(PostsOf(3)) = 0

\* the label of a level in upper case
UpperLabel(lvl) ==
    CASE lvl = "info" -> "INFO"
      [] lvl = "warning" -> "WARNING"
      [] lvl = "error" -> "ERROR"

\* C9: a Slack payload built for chunk index 1 has as body text the level
\* icon, the rendered mentions, the timestamp, the sender name in brackets,
\* the upper-case label of the level, a colon and a newline, then the chunk
\* text; a payload built for a chunk index > 1 has the bare chunk text.
C9_SlackDecoratesFirstChunkOnly ==
    variant = "Slack" =>
        \A i \in 1..Len(trace) :
            trace[i].ev = "set_body" =>
                LET k == trace[i].chunk_id
                    shown == trace[i].body.blocks[1].text.text
                IN  IF k = 1
                    THEN shown = <<LEVELS[level].text_icon, " ">>
                                 \o render_echo(echo) \o <<" ">>
                                 \o Date(TimeAt(i)) \o <<" ", "[">> \o name
                                 \o <<"]", " ", UpperLabel(level), ":", "\n">>
                                 \o Segment(1)
                    ELSE shown = Segment(k)

\* a Slack error with two mentions: the second chunk was built bare
C9_Witness ==
    /\ variant = "Slack"
    /\ level = "error"
    /\ echo.type = "list"
    /\ NumBuilds = 2
    /\ trace[BuildAt(2)].body.blocks[1].text.text = Segment(2)
    /\ trace[1].body.blocks[1].text.text[1] = ":red_circle:"

\* C10: a Teams payload, whatever its chunk index, has as text the level
\* icon, the timestamp, the sender name in brackets and the upper-case label
\* of the level, then the chunk text.
C10_TeamsDecoratesEveryChunk ==
    variant = "Teams" =>
        \A i \in 1..Len(trace) :
            trace[i].ev = "set_body" =>
                LET k == trace[i].chunk_id
                IN  trace[i].body.text =
                        <<LEVELS_TEAMS[level].text_icon, " ">>
                        \o Date(TimeAt(i)) \o <<" ", "[">> \o name
                        \o <<"]", " ", " ", UpperLabel(level), ":", " ", " ">>
                        \o Segment(k)

\* a Teams warning of three chunks: the third payload has the header too
C10_Witness ==
    /\ variant = "Teams"
    /\ level = "warning"
    /\ NumBuilds = 3
    /\ trace[BuildAt(3)].chunk_id = 3
    /\ trace[BuildAt(3)].body.text[1] = "&#128310;"
    /\ Len(trace[BuildAt(3)].body.text) > Len(Segment(3))

\* the mentions an echo argument stands for, position by position: nothing
\* for None, "@" and the identifier for a str, and for a list of n
\* identifiers the 3n - 1 pieces "@", identifier, " ", "@", identifier, ...
MentionsOf(e) ==
    IF e.type = "NoneType" THEN <<>>
    ELSE IF e.type = "str" THEN <<"@", e.val[1]>>
    ELSE [p \in 1..(3 * Len(e.val) - 1) |->
            IF p % 3 = 1 THEN "@"
            ELSE IF p % 3 = 2 THEN e.val[(p + 1) \div 3][1]
            ELSE " "]

\* C11: in the header of a Slack payload the mentions, which stand between
\* the level icon and the timestamp, are empty when echo is None, "@name"
\* for one identifier, and for a list the "@"-prefixed identifiers in the
\* given order with one space between them (['bob','amy'] gives '@bob @amy').
C11_MentionsRendering ==
    (pc = "done" /\ variant = "Slack" /\ chunk_id = 1) =>
        LET shown == body.blocks[1].text.text
            m == MentionsOf(echo)
        IN  /\ SubSeq(shown, 1, 2) = <<LEVELS[level].text_icon, " ">>
            /\ SubSeq(shown, 3, 2 + Len(m)) = m
            /\ SubSeq(shown, 3 + Len(m), 3 + Len(m) + Len(Date(now)))
                   = <<" ">> \o Date(now)
            /\ echo = None => SubSeq(shown, 3, 4) = <<" ", "T0+">>
            /\ echo = Str(<<"bob">>) => SubSeq(shown, 3, 5) = <<"@", "bob", " ">>
            /\ echo = List(<< <<"bob">>, <<"amy">> >>) =>
                   SubSeq(shown, 3, 8) = <<"@", "bob", " ", "@", "amy", " ">>

\* a Slack header built for the list ['bob', 'amy']
C11_Witness ==
    /\ pc = "done"
    /\ variant = "Slack"
    /\ chunk_id = 1
    /\ echo = List(<< <<"bob">>, <<"amy">> >>)
    /\ body # NoBody
    /\ body.blocks[1].text.text[4] = "bob"

\* the call is under way: it has begun and has not yet returned or raised
Running == pc \in {"loop", "send", "wait"}

\* C12: every call of info, warning or error ends, whatever the outcomes of
\* its attempts, and on the way no chunk is POSTed more than
\* MAX_FAILURE_ATTEMPTS times, so that the call makes at most
\* MAX_FAILURE_ATTEMPTS * ceil(len(text) / LIMIT) POSTs (none for an empty
\* text).
C12_CallTerminates ==
    /\ [](InCall =>
            /\ \A k \in 1..NumBuilds : Len(PostsOf(k)) <= MAX_FAILURE_ATTEMPTS
            /\ NumBuilds <= NumChunks
            /\ Len(Posts) <= MAX_FAILURE_ATTEMPTS * NumChunks
            /\ ~TextGiven => Len(Posts) = 0)
    /\ (Running ~> pc = "done")

\* a finished call of three chunks that used every attempt of its last chunk
C12_Witness ==
    /\ pc = "done"
    /\ NumChunks = 3
    /\ NumBuilds = 3
    /\ Len(PostsOf(3)) = MAX_FAILURE_ATTEMPTS
    /\ Abandoned(3)
    /\ Len(Posts) = 5

\* C13: one attempt of send_message ends in one of two ways: it returns, and
\* this only when the POST gave a response with status code 200, or it raises
\* NotifierError.  A response with any other status code (another 2xx as
\* well), a RequestException and any other Exception all end as NotifierError,
\* and for a response the message of the error holds the status code.
C13_TwoOutcomesOfAnAttempt ==
    pc = "done" =>
        LET o == arg_outcome
            ok == o.kind = "response" /\ o.status_code = 200
        IN  /\ exc = NoExc \/ exc.type = "NotifierError"
            /\ exc = NoExc <=> ok
            /\ result = (IF ok THEN "returned" ELSE "raised")
            /\ (o.kind = "response" /\ ~ok) =>
                   \E i \in 1..Len(exc.msg) : exc.msg[i] = ToString(o.status_code)

\* a response "201 Created" that ended the attempt with NotifierError
C13_Witness ==
    /\ pc = "done"
    /\ arg_outcome.kind = "response"
    /\ arg_outcome.status_code = 201
    /\ exc.type = "NotifierError"
    /\ exc.msg[Len(exc.msg)] = "201"

\* what a call has done so far is what a first call with its arguments does:
\* its first payload has chunk index 1, the first POST of every chunk is
\* attempt 1, every payload is the one its own level, chunk, chunk index,
\* echo and time give on this notifier, and it ends by returning
CallIsFresh ==
    /\ NumBuilds >= 1 => trace[1].ev = "set_body" /\ trace[1].chunk_id = 1
    /\ \A k \in 1..NumBuilds :
         /\ trace[BuildAt(k)].chunk_id = k
         /\ trace[BuildAt(k)].body =
                set_body(level, Segment(k), k, echo, Date(TimeAt(BuildAt(k))))
         /\ Len(PostsOf(k)) >= 1 => PostsOf(k)[1].attempt = 1
    /\ \A i \in 1..Len(trace) : trace[i].ev = "post" => trace[i].url = UrlArg
    /\ pc = "done" => result = "returned"

\* C14: calls leave the notifier as it was: no step of any call changes its
\* url, username or name, and whatever the calls before did and however they
\* ended, a call starts at chunk index 1 with attempt 1 and its payloads,
\* attempts and result are those of its own arguments.
C14_SendsAreStateless ==
    /\ [][_url' = _url /\ username' = username /\ name' = name]_vars
    /\ [](InCall /\ TextGiven => CallIsFresh)
    /\ [][(pc = "idle" /\ pc' = "loop") =>
            /\ chunk_id' = 1
            /\ attempt_number' = 0
            /\ iter_index' = 0
            /\ trace' = <<>>]_vars

\* a call that follows an abandoned call and has delivered its first chunk,
\* numbered 1, at attempt 1
C14_Witness ==
    /\ prior = "abandoned"
    /\ pc = "loop"
    /\ TextGiven
    /\ NumBuilds = 1
    /\ trace[1].chunk_id = 1
    /\ Len(PostsOf(1)) = 1
    /\ PostsOf(1)[1].attempt = 1
    /\ chunk_id = 2

\* the index in trace of the last set_body event before position i
LastBuildBefore(i) ==
    LET builds == {j \in 1..(i - 1) : trace[j].ev = "set_body"}
    IN  CHOOSE j \in builds : \A h \in builds : h <= j

\* C15: the payload of a chunk is built once, before the chunk's first
\* attempt; every POST of the chunk, retries as well, sends that very payload
\* (text and timestamp) to the url of the notifier; and after an attempt that
\* succeeded the call makes no more POST for that chunk.
C15_PayloadBuiltOncePerChunk ==
    InCall =>
        /\ \A i, j \in 1..Len(trace) :
             (i < j /\ trace[i].ev = "set_body" /\ trace[j].ev = "set_body")
                 => trace[i].chunk_id # trace[j].chunk_id
        /\ \A i \in 1..Len(trace) :
             trace[i].ev = "post" =>
                 /\ \E j \in 1..(i - 1) : trace[j].ev = "set_body"
                 /\ trace[LastBuildBefore(i)].chunk_id = trace[i].chunk_id
                 /\ trace[LastBuildBefore(i)].body = trace[i].body
                 /\ trace[i].url = _url
        /\ \A i, j \in 1..Len(trace) :
             (i < j /\ trace[i].ev = "post" /\ trace[i].raised = ""
                    /\ trace[j].ev = "post")
                 => trace[j].chunk_id # trace[i].chunk_id

\* a Slack chunk delivered at its third attempt, ten seconds after its
\* payload was built, with that payload; the call has gone on to chunk 2
C15_Witness ==
    /\ variant = "Slack"
    /\ NumBuilds = 2
    /\ Len(PostsOf(1)) = 3
    /\ PostsOf(1)[3].raised = ""
    /\ PostsOf(1)[3].body = trace[1].body
    /\ now = 2 * WAIT_AFTER_FAILURE
    /\ trace[BuildAt(2)].chunk_id = 2

\* the positions in trace of the sleeps, and of the failed POSTs that are
\* followed, one sleep later, by another POST of the same chunk
SleepPositions == {i \in 1..Len(trace) : trace[i].ev = "sleep"}
RetriedFailures ==
    {i \in 1..(Len(trace) - 2) :
        /\ trace[i].ev = "post"
        /\ trace[i].raised # ""
        /\ trace[i + 2].ev = "post"
        /\ trace[i + 2].chunk_id = trace[i].chunk_id}

\* C16: a retry interval is only ever taken right after a failed attempt that
\* was not the chunk's last (MAX_FAILURE_ATTEMPTS-th) one and right before
\* the next attempt of the same chunk: never before a chunk's first attempt,
\* never after a success, never after the third failure.  A call that is over
\* has taken as many intervals as it had failed attempts followed by another
\* attempt of the same chunk.
C16_DelayOnlyBetweenAttempts ==
    InCall =>
        /\ \A i \in SleepPositions :
             /\ i > 1
             /\ trace[i - 1].ev = "post"
             /\ trace[i - 1].raised # ""
             /\ trace[i - 1].attempt < MAX_FAILURE_ATTEMPTS
             /\ trace[i - 1].chunk_id = trace[i].chunk_id
             /\ i < Len(trace) =>
                    /\ trace[i + 1].ev = "post"
                    /\ trace[i + 1].chunk_id = trace[i].chunk_id
                    /\ trace[i + 1].attempt = trace[i - 1].attempt + 1
        /\ \A i \in 1..(Len(trace) - 1) :
             (trace[i].ev = "set_body"
              \/ (trace[i].ev = "post" /\ trace[i].raised = "")
              \/ (trace[i].ev = "post" /\ trace[i].attempt = MAX_FAILURE_ATTEMPTS))
                 => trace[i + 1].ev # "sleep"
        /\ pc = "done" =>
             /\ Len(trace) > 0 => trace[Len(trace)].ev = "post"
             /\ Cardinality(SleepPositions) = Cardinality(RetriedFailures)

\* a finished call: chunk 1 delivered at its second attempt, chunk 2 given up
\* after three failures; three intervals for four failed attempts
C16_Witness ==
    /\ pc = "done"
    /\ NumBuilds = 2
    /\ Len(PostsOf(1)) = 2
    /\ Delivered(1)
    /\ Abandoned(2)
    /\ Cardinality(SleepPositions) = 3
    /\ Len(SelectSeq(trace, LAMBDA e : e.ev = "post" /\ e.raised # "")) = 4
    /\ trace[Len(trace)].attempt = MAX_FAILURE_ATTEMPTS

\* C17: a Teams call does not show its mentions: every payload it builds is
\* the payload that the same level, chunk, sender name and timestamp give
\* with any other echo argument (None, one identifier, a list), its header
\* holds no "@" and no identifier, and every POST sends the payload built for
\* its chunk to the url of the notifier; so calls that differ in echo only
\* build the same payloads and make the same POSTs.
C17_TeamsIgnoresMentions ==
    (variant = "Teams" /\ InCall /\ TextGiven) =>
        \A i \in 1..Len(trace) :
            /\ trace[i].ev = "set_body" =>
                  LET k == trace[i].chunk_id
                      shown == trace[i].body.text
                  IN  /\ \A other \in EchoArgs :
                           trace[i].body =
                               TeamsNotifier_set_body(level, Segment(k), k, other,
                                                      Date(TimeAt(i)))
                      /\ \A j \in 1..(Len(shown) - Len(Segment(k))) :
                           shown[j] \notin {"@", "bob", "amy"}
            /\ trace[i].ev = "post" =>
                  /\ trace[i].body = trace[LastBuildBefore(i)].body
                  /\ trace[i].url = _url

\* a Teams call with the mentions ['bob', 'amy'] whose first chunk was POSTed
\* on the second attempt
C17_Witness ==
    /\ variant = "Teams"
    /\ echo = List(<< <<"bob">>, <<"amy">> >>)
    /\ NumBuilds >= 1
    /\ Len(PostsOf(1)) = 2
    /\ PostsOf(1)[2].body.text[1] = LEVELS_TEAMS[level].text_icon
    /\ PostsOf(1)[2].body.text[3] = "T0+"

\* C18: LIMIT bounds the chunk of the user's text a payload carries, not the
\* message text of the payload.  In every payload the message text ends with
\* the chunk, of at most LIMIT characters; a Slack payload with chunk index
\* above 1 is the chunk alone, so at most LIMIT long; a decorated payload
\* (Slack chunk 1, every Teams chunk) is a header, never empty, and then the
\* chunk, so its length is the sum of the two and is above LIMIT when the
\* chunk is full.
C18_LimitBoundsChunkNotMessage ==
    (InCall /\ TextGiven) =>
        \A i \in 1..Len(trace) :
            trace[i].ev \in {"set_body", "post"} =>
                LET k == trace[i].chunk_id
                    chunk == split_text[k]
                    shown == body_text(trace[i].body)
                    header == Len(shown) - Len(chunk)
                    decorated == variant = "Teams" \/ k = 1
                IN  /\ Len(chunk) \in 1..LIMIT
                    /\ header >= 0
                    /\ SubSeq(shown, header + 1, Len(shown)) = chunk
                    /\ ~decorated => header = 0 /\ Len(shown) <= LIMIT
                    /\ decorated =>
                          /\ DecorationLen(k) > 0
                          /\ Len(shown) = DecorationLen(k) + Len(chunk)
                          /\ Len(chunk) = LIMIT => Len(shown) > LIMIT

\* a Slack call of LIMIT + 1 characters: the first payload, decorated, is
\* longer than LIMIT with its full chunk; the second is one character long
C18_Witness ==
    /\ variant = "Slack"
    /\ Len(text.val) = LIMIT + 1
    /\ NumBuilds = 2
    /\ Len(split_text[1]) = LIMIT
    /\ Len(body_text(trace[1].body)) > LIMIT
    /\ Len(body_text(trace[BuildAt(2)].body)) = 1
    /\ Len(PostsOf(2)) >= 1

====
